---- MODULE Spec2Model ----
(***************************************************************************)
(* AliasList (prompt_toolkit/alias.py): alias templates stored per name    *)
(* and per argument count, with add, load_dict, merge and resolve.         *)
(*                                                                         *)
(* A Python str is a sequence of one-character strings, so that scanning,  *)
(* tokenizing and substring replacement are computed, not assumed.         *)
(* A Python list is an object: loaded_aliases maps a name to the identity  *)
(* of its list and heap maps an identity to the list's contents, so that   *)
(* two tables sharing one list is a state the model can be in.             *)
(***************************************************************************)
EXTENDS Integers, Sequences, FiniteSets, TLC

VARIABLES
    loaded_aliases, \* [table -> [name -> list identity, or None]]  (_loaded_aliases)
    heap,           \* [list identity -> sequence of template strings]
    loaded,         \* [table -> BOOLEAN]                            (_loaded)
    registered,     \* history: [table -> [name -> largest arity registered, -1 if none]]
    last            \* the last call: its operation, arguments and outcome

vars == <<loaded_aliases, heap, loaded, registered, last>>

(***************************************************************************)
(* Bounds and input sets                                                   *)
(***************************************************************************)
MaxInvLen == 3      \* every invocation string of at most this length is tried
MaxDataLen == 2     \* load_dict data: sequences of at most this many templates

None == <<"None">>    \* no list: the name is not a key of the dict
NoTable == "-"
NoError == "none"
Tables == {"A", "B"}
Names == {<<"a">>, <<"b">>}
ListIds == Tables \X Names

\* templates used by the table specification (Spec)
T_x == <<"x">>
T_y == <<"y">>
T_c1 == <<"c", " ", "{", "1", "}">>
T_bad == <<"{", "a", "}">>
Templates == {<<>>, T_x, T_y, T_c1, T_bad}
\* calls of add tried: every template for the name "a", one template for "b"
AddInputs == ({<<"a">>} \X Templates \X BOOLEAN) \cup {<< <<"b">>, T_x, FALSE >>}

\* templates used by the resolve specification (SpecResolve)
T_01 == <<"{", "0", "}", " ", "{", "1", "}">>
T_12 == <<"{", "1", "}", " ", "{", "2", "}">>
T_sp1 == <<"{", " ", "1", " ", "}">>
ResolveTemplates == {<<>>, T_x, T_01, T_12, T_sp1, T_bad}

InvChars == {"a", "b", " ", "\""}
SampleInvocations ==
    { <<"a", " ", "{", "2", "}", " ", "b">>,
      <<"a", " ", "\"", "b", " ", "b", "\"">>,
      <<"a", " ", "b", " ", "b">>,
      <<"a", " ", "b", " ", "b", " ", "b">>,
      <<"a", " ", "\"", "\"">>,
      <<"a", " ", "'", "{", "2", "}", " ", "'", " ", "b">>,
      <<"a", "\\", " ", "b">>,
      <<"\"", "a", "\\", "\"", "b", "\"">> }
Invocations ==
    (UNION { [1..k -> InvChars] : k \in 0..MaxInvLen }) \cup SampleInvocations

(***************************************************************************)
(* Python string helpers                                                   *)
(***************************************************************************)
Digits == {"0", "1", "2", "3", "4", "5", "6", "7", "8", "9"}
DigitChars == <<"0", "1", "2", "3", "4", "5", "6", "7", "8", "9">>

DigitVal(c) == CHOOSE d \in 0..9 : DigitChars[d + 1] = c

RECURSIVE DecVal(_)
DecVal(s) ==
    IF s = <<>> THEN 0
    ELSE DecVal(SubSeq(s, 1, Len(s) - 1)) * 10 + DigitVal(s[Len(s)])

RECURSIVE LStrip(_)
LStrip(s) == IF s # <<>> /\ s[1] = " " THEN LStrip(Tail(s)) ELSE s

RECURSIVE RStrip(_)
RStrip(s) ==
    IF s # <<>> /\ s[Len(s)] = " " THEN RStrip(SubSeq(s, 1, Len(s) - 1)) ELSE s

\* int(s): surrounding whitespace and one sign are accepted, then decimal digits;
\* anything else raises ValueError (ok = FALSE).
PyInt(s) ==
    LET t == RStrip(LStrip(s))
        signed == t # <<>> /\ t[1] \in {"+", "-"}
        body == IF signed THEN Tail(t) ELSE t
    IN  IF body # <<>> /\ \A i \in 1..Len(body) : body[i] \in Digits
        THEN [ok |-> TRUE,
              val |-> IF signed /\ t[1] = "-" THEN 0 - DecVal(body) ELSE DecVal(body)]
        ELSE [ok |-> FALSE, val |-> 0]

\* '%s' % i for i >= 0
RECURSIVE IntToStr(_)
IntToStr(n) ==
    IF n < 10 THEN <<DigitChars[n + 1]>>
    ELSE IntToStr(n \div 10) \o <<DigitChars[(n % 10) + 1]>>

\* the index of the first c in s at or after position i, 0 if there is none
RECURSIVE FindChar(_, _, _)
FindChar(s, c, i) ==
    IF i > Len(s) THEN 0
    ELSE IF s[i] = c THEN i
    ELSE FindChar(s, c, i + 1)

\* s.replace(old, new), old non-empty: every non-overlapping occurrence, left to right
RECURSIVE str_replace(_, _, _)
str_replace(s, old, new) ==
    IF Len(s) < Len(old) THEN s
    ELSE IF SubSeq(s, 1, Len(old)) = old
         THEN new \o str_replace(SubSeq(s, Len(old) + 1, Len(s)), old, new)
         ELSE <<s[1]>> \o str_replace(Tail(s), old, new)

Max(a, b) == IF a > b THEN a ELSE b

(***************************************************************************)
(* _count_args: re.finditer(r"\{(.*?)\}", text), int() of each group       *)
(***************************************************************************)
RECURSIVE CountFrom(_, _, _)
CountFrom(text, i, argcount) ==
    LET open == FindChar(text, "{", i)
        close == IF open = 0 THEN 0 ELSE FindChar(text, "}", open + 1)
    IN  IF open = 0 \/ close = 0
        THEN [error |-> NoError, count |-> argcount]
        ELSE LET argnum == PyInt(SubSeq(text, open + 1, close - 1))
             IN  IF ~argnum.ok
                 THEN [error |-> "ValueError", count |-> argcount]
                 ELSE CountFrom(text, close + 1,
                                IF argnum.val > argcount THEN argnum.val ELSE argcount)

count_args(text) == CountFrom(text, 1, 0)

(***************************************************************************)
(* The store: the part of the state that add, load_dict and merge change   *)
(***************************************************************************)
Store == [al |-> loaded_aliases, hp |-> heap, ld |-> loaded, reg |-> registered,
          error |-> NoError]

Has(al, t, name) == name \in Names /\ al[t][name] # None

\* the list table t holds for name (name is in the table)
ListOf(al, hp, t, name) == hp[al[t][name]]

\* while len(lst) <= count: lst.append('')   with n = count + 1
Pad(lst, n) ==
    IF Len(lst) >= n THEN lst
    ELSE lst \o [i \in 1..(n - Len(lst)) |-> <<>>]

(***************************************************************************)
(* add                                                                     *)
(***************************************************************************)
AddTo(S, t, name, text, replace) ==
    LET fresh == S.al[t][name] = None
        al1 == IF fresh THEN [S.al EXCEPT ![t][name] = <<t, name>>] ELSE S.al
        hp1 == IF fresh THEN [S.hp EXCEPT ![<<t, name>>] = <<>>] ELSE S.hp
        id == al1[t][name]
        c == count_args(text)
    IN  IF c.error # NoError
        THEN [S EXCEPT !.al = al1, !.hp = hp1, !.error = c.error]
        ELSE LET padded == Pad(hp1[id], c.count + 1)
                 written == IF replace \/ padded[c.count + 1] = <<>>
                            THEN [padded EXCEPT ![c.count + 1] = text]
                            ELSE padded
             IN  [al |-> al1,
                  hp |-> [hp1 EXCEPT ![id] = written],
                  ld |-> [S.ld EXCEPT ![t] = TRUE],
                  reg |-> [S.reg EXCEPT ![t][name] = Max(@, c.count)],
                  error |-> NoError]

NoCall == [op |-> "init", table |-> NoTable, name |-> <<>>, text |-> <<>>,
           replace |-> FALSE, other |-> NoTable, data |-> <<>>,
           error |-> NoError, value |-> <<>>]

Commit(S) ==
    /\ loaded_aliases' = S.al
    /\ heap' = S.hp
    /\ loaded' = S.ld
    /\ registered' = S.reg

Add(t, name, text, replace) ==
    LET S == AddTo(Store, t, name, text, replace)
    IN  /\ Commit(S)
        /\ last' = [NoCall EXCEPT !.op = "add", !.table = t, !.name = name,
                                  !.text = text, !.replace = replace,
                                  !.error = S.error]

(***************************************************************************)
(* load_dict: add(name, value, True) for every value of every name, in     *)
(* order; data is the dict as its items in iteration order.  An exception  *)
(* of add ends the call where it is raised.                                *)
(***************************************************************************)
RECURSIVE LoadValues(_, _, _, _)
LoadValues(S, t, name, values) ==
    IF values = <<>> \/ S.error # NoError THEN S
    ELSE LoadValues(AddTo(S, t, name, Head(values), TRUE), t, name, Tail(values))

RECURSIVE LoadItems(_, _, _)
LoadItems(S, t, data) ==
    IF data = <<>> \/ S.error # NoError THEN S
    ELSE LoadItems(LoadValues(S, t, data[1][1], data[1][2]), t, Tail(data))

LoadInto(S, t, data) ==
    LET R == LoadItems(S, t, data)
    IN  IF R.error # NoError THEN R ELSE [R EXCEPT !.ld[t] = TRUE]

load_dict(t, data) ==
    LET S == LoadInto(Store, t, data)
    IN  /\ Commit(S)
        /\ last' = [NoCall EXCEPT !.op = "load_dict", !.table = t, !.data = data,
                                  !.error = S.error]

(***************************************************************************)
(* merge                                                                   *)
(***************************************************************************)
\* the bug copy.copy prevents: the two tables hold the same list object
ShareList(S, t, o, name) == [S EXCEPT !.al[t][name] = S.al[o][name]]

\* self._loaded_aliases[name] = copy.copy(other._loaded_aliases[name])
CopyList(S, t, o, name) ==
    [S EXCEPT !.al[t][name] = <<t, name>>,
              !.hp[<<t, name>>] = S.hp[S.al[o][name]]]

\* for i in range(n): pad self's list to i + 1 slots, then write slot i
\* (slot i of the code is position i + 1 here)
RECURSIVE MergeSlots(_, _, _, _, _, _)
MergeSlots(hp, sid, oid, replace, i, n) ==
    IF i > n THEN hp
    ELSE LET hp1 == [hp EXCEPT ![sid] = Pad(@, i)]
             hp2 == IF replace \/ hp1[sid][i] = <<>>
                    THEN [hp1 EXCEPT ![sid][i] = hp1[oid][i]]
                    ELSE hp1
         IN  MergeSlots(hp2, sid, oid, replace, i + 1, n)

MergeName(S, t, o, name, replace) ==
    LET S1 == IF S.al[t][name] = None
              THEN CopyList(S, t, o, name)
              ELSE [S EXCEPT !.hp = MergeSlots(S.hp, S.al[t][name], S.al[o][name], replace,
                                               1, Len(S.hp[S.al[o][name]]))]
    IN  [S1 EXCEPT !.reg[t][name] = Max(@, S.reg[o][name])]

RECURSIVE MergeNames(_, _, _, _, _)
MergeNames(S, t, o, names, replace) ==
    IF names = {} THEN S
    ELSE LET name == CHOOSE x \in names : TRUE
         IN  MergeNames(MergeName(S, t, o, name, replace), t, o, names \ {name}, replace)

MergeInto(S, t, o, replace) ==
    MergeNames(S, t, o, {name \in Names : S.al[o][name] # None}, replace)

merge(t, o, replace) ==
    LET S == MergeInto(Store, t, o, replace)
    IN  /\ Commit(S)
        /\ last' = [NoCall EXCEPT !.op = "merge", !.table = t, !.other = o,
                                  !.replace = replace]

(***************************************************************************)
(* shlex.split(text): posix mode, whitespace_split, no comment characters. *)
(* st is the lexer state: " " between tokens, "a" inside a word, a quote   *)
(* character inside a quoted part, the escape character after a backslash. *)
(***************************************************************************)
Whitespace == {" "}
Quotes == {"\"", "'"}
EscapedQuotes == {"\""}
Escape == {"\\"}

RECURSIVE Lex(_, _, _, _, _, _, _)
Lex(s, i, st, escapedstate, token, quoted, parts) ==
    IF i > Len(s)
    THEN IF st \in Quotes \/ st \in Escape
         THEN [error |-> "ValueError", parts |-> <<>>]
         ELSE [error |-> NoError,
               parts |-> IF token # <<>> \/ quoted THEN Append(parts, token) ELSE parts]
    ELSE LET c == s[i]
         IN  IF st = " "
             THEN IF c \in Whitespace
                  THEN Lex(s, i + 1, " ", escapedstate, token, quoted, parts)
                  ELSE IF c \in Escape
                  THEN Lex(s, i + 1, c, "a", token, quoted, parts)
                  ELSE IF c \in Quotes
                  THEN Lex(s, i + 1, c, escapedstate, token, quoted, parts)
                  ELSE Lex(s, i + 1, "a", escapedstate, <<c>>, quoted, parts)
             ELSE IF st \in Quotes
             THEN IF c = st
                  THEN Lex(s, i + 1, "a", escapedstate, token, TRUE, parts)
                  ELSE IF c \in Escape /\ st \in EscapedQuotes
                  THEN Lex(s, i + 1, c, st, token, TRUE, parts)
                  ELSE Lex(s, i + 1, st, escapedstate, Append(token, c), TRUE, parts)
             ELSE IF st \in Escape
             THEN LET kept == IF escapedstate \in Quotes /\ c # st /\ c # escapedstate
                              THEN Append(token, st)
                              ELSE token
                  IN  Lex(s, i + 1, escapedstate, escapedstate, Append(kept, c), quoted, parts)
             ELSE \* st = "a"
                  IF c \in Whitespace
                  THEN Lex(s, i + 1, " ", " ", <<>>, FALSE, Append(parts, token))
                  ELSE IF c \in Quotes
                  THEN Lex(s, i + 1, c, escapedstate, token, quoted, parts)
                  ELSE IF c \in Escape
                  THEN Lex(s, i + 1, c, "a", token, quoted, parts)
                  ELSE Lex(s, i + 1, "a", escapedstate, Append(token, c), quoted, parts)

shlex_split(text) == Lex(text, 1, " ", " ", <<>>, FALSE, <<>>)

(***************************************************************************)
(* resolve                                                                 *)
(***************************************************************************)
\* for i in range(len(parts)): value = value.replace('{%s}' % i, part),
\* the part wrapped in double quotes when it contains a space
RECURSIVE Substitute(_, _, _)
Substitute(value, parts, i) ==
    IF i >= Len(parts) THEN value
    ELSE LET raw == parts[i + 1]
             part == IF \E k \in 1..Len(raw) : raw[k] = " "
                     THEN <<"\"">> \o raw \o <<"\"">>
                     ELSE raw
         IN  Substitute(str_replace(value, <<"{">> \o IntToStr(i) \o <<"}">>, part),
                        parts, i + 1)

\* the slip "return ''" for "return text" on line 59
ResolveEmptyOnTooManyParts(al, hp, t, text) ==
    IF text = <<>> THEN [error |-> NoError, value |-> <<>>]
    ELSE LET sp == shlex_split(text)
         IN  IF sp.error # NoError THEN [error |-> sp.error, value |-> <<>>]
             ELSE IF sp.parts = <<>> THEN [error |-> "IndexError", value |-> <<>>]
             ELSE IF ~Has(al, t, sp.parts[1]) THEN [error |-> NoError, value |-> text]
             ELSE IF Len(sp.parts) > Len(ListOf(al, hp, t, sp.parts[1]))
                  THEN [error |-> NoError, value |-> <<>>]
             ELSE [error |-> NoError,
                   value |-> Substitute(ListOf(al, hp, t, sp.parts[1])[Len(sp.parts)],
                                        sp.parts, 0)]

ResolveIn(al, hp, t, text) ==
    IF text = <<>> THEN [error |-> NoError, value |-> <<>>]
    ELSE LET sp == shlex_split(text)
         IN  IF sp.error # NoError THEN [error |-> sp.error, value |-> <<>>]
             ELSE IF sp.parts = <<>> THEN [error |-> "IndexError", value |-> <<>>]
             ELSE IF ~Has(al, t, sp.parts[1]) THEN [error |-> NoError, value |-> text]
             ELSE IF Len(sp.parts) > Len(ListOf(al, hp, t, sp.parts[1]))
                  THEN [error |-> NoError, value |-> text]
             ELSE [error |-> NoError,
                   value |-> Substitute(ListOf(al, hp, t, sp.parts[1])[Len(sp.parts)],
                                        sp.parts, 0)]

resolve(t, text) ==
    LET r == ResolveIn(loaded_aliases, heap, t, text)
    IN  /\ UNCHANGED <<loaded_aliases, heap, loaded, registered>>
        /\ last' = [NoCall EXCEPT !.op = "resolve", !.table = t, !.text = text,
                                  !.error = r.error, !.value = r.value]

(***************************************************************************)
(* Specifications                                                          *)
(***************************************************************************)
Init ==
    /\ loaded_aliases = [t \in Tables |-> [n \in Names |-> None]]
    /\ heap = [id \in ListIds |-> <<>>]
    /\ loaded = [t \in Tables |-> FALSE]
    /\ registered = [t \in Tables |-> [n \in Names |-> -1]]
    /\ last = NoCall

DataTemplates == {<<>>, T_x, T_c1}
DataSeqs == UNION { [1..k -> DataTemplates] : k \in 0..MaxDataLen }
DataSets ==
    { << << <<"a">>, values >> >> : values \in DataSeqs }
        \cup { <<>>, << << <<"b">>, <<T_x>> >>, << <<"a">>, <<T_c1>> >> >> }

\* Spec: two tables built and combined by add, load_dict and merge
AddAny ==
    \E t \in Tables, call \in AddInputs : Add(t, call[1], call[2], call[3])

LoadAny == \E t \in Tables, data \in DataSets : load_dict(t, data)

MergeAny == \E t \in Tables, o \in Tables, replace \in BOOLEAN : merge(t, o, replace)

Next == AddAny \/ LoadAny \/ MergeAny

Spec == Init /\ [][Next]_vars

\* SpecResolve: one table built by add, and resolve called on it
AddForResolve ==
    \E text \in ResolveTemplates, replace \in BOOLEAN : Add("A", <<"a">>, text, replace)

ResolveAny == \E text \in Invocations : resolve("A", text)

NextResolve == AddForResolve \/ ResolveAny

SpecResolve == Init /\ [][NextResolve]_vars

(***************************************************************************)
(* Vocabulary of the properties                                            *)
(***************************************************************************)
\* the largest k of a placeholder {k}, k written in decimal digits; 0 if there is none
PlaceholderIndexes(text) ==
    { DecVal(SubSeq(text, p[1] + 1, p[2] - 1)) :
        p \in { q \in (1..Len(text)) \X (1..Len(text)) :
                  /\ q[1] + 1 < q[2]
                  /\ text[q[1]] = "{"
                  /\ text[q[2]] = "}"
                  /\ \A k \in (q[1] + 1)..(q[2] - 1) : text[k] \in Digits } }

Arity(text) ==
    IF PlaceholderIndexes(text) = {} THEN 0
    ELSE CHOOSE m \in PlaceholderIndexes(text) : \A k \in PlaceholderIndexes(text) : k <= m

QuoteIfSpaced(part) ==
    IF \E k \in 1..Len(part) : part[k] = " " THEN <<"\"">> \o part \o <<"\"">> ELSE part

Placeholder(i) == <<"{">> \o IntToStr(i) \o <<"}">>

StartsWith(s, prefix) == Len(s) >= Len(prefix) /\ SubSeq(s, 1, Len(prefix)) = prefix

\* the template with its own placeholders {0}..{n} replaced by the tokens, in one pass
RECURSIVE ExpandTemplate(_, _)
ExpandTemplate(template, parts) ==
    IF template = <<>> THEN <<>>
    ELSE LET hits == { i \in 0..(Len(parts) - 1) : StartsWith(template, Placeholder(i)) }
         IN  IF hits # {}
             THEN LET i == CHOOSE h \in hits : TRUE
                  IN  QuoteIfSpaced(parts[i + 1])
                          \o ExpandTemplate(SubSeq(template, Len(Placeholder(i)) + 1,
                                                   Len(template)), parts)
             ELSE <<template[1]>> \o ExpandTemplate(Tail(template), parts)

\* the list of name in table t, the empty list when the name is not in the table
ListOrEmpty(al, hp, t, name) == IF Has(al, t, name) THEN ListOf(al, hp, t, name) ELSE <<>>

OtherListsUnchanged(t, name) ==
    \A u \in Tables, n \in Names :
        (u # t \/ n # name) =>
            /\ Has(loaded_aliases', u, n) = Has(loaded_aliases, u, n)
            /\ ListOrEmpty(loaded_aliases', heap', u, n) = ListOrEmpty(loaded_aliases, heap, u, n)

\* the last call was resolve of a text that tokenizes to at least one token
ResolvedTokens ==
    /\ last.op = "resolve"
    /\ last.text # <<>>
    /\ shlex_split(last.text).error = NoError
    /\ shlex_split(last.text).parts # <<>>

LastParts == shlex_split(last.text).parts

(***************************************************************************)
(* C1.  resolve of an invocation t0..tn whose alias t0 has a non-empty     *)
(* template at slot n returns that template with its own placeholders      *)
(* {0}..{n} replaced by the tokens (a token with a space in double         *)
(* quotes), whatever the tokens contain.                                   *)
(***************************************************************************)
C1_ResolveExpandsTemplate ==
    (/\ ResolvedTokens
     /\ Has(loaded_aliases, last.table, LastParts[1])
     /\ Len(LastParts) <= Len(ListOf(loaded_aliases, heap, last.table, LastParts[1]))
     /\ ListOf(loaded_aliases, heap, last.table, LastParts[1])[Len(LastParts)] # <<>>)
    => /\ last.error = NoError
       /\ last.value =
            ExpandTemplate(ListOf(loaded_aliases, heap, last.table, LastParts[1])[Len(LastParts)],
                           LastParts)

(***************************************************************************)
(* C2.  resolve passes through when there is no slot: the empty string     *)
(* gives the empty string; a non-empty invocation whose first token is not *)
(* an alias of the table, or that has more tokens than the alias has       *)
(* slots, is returned unchanged; the table is not modified.                *)
(***************************************************************************)
C2_ResolvePassThrough ==
    [][ last'.op = "resolve" =>
          LET text == last'.text
              sp == shlex_split(text)
              t == last'.table
          IN  /\ loaded_aliases' = loaded_aliases
              /\ heap' = heap
              /\ text = <<>> => (last'.error = NoError /\ last'.value = <<>>)
              /\ (/\ text # <<>>
                  /\ sp.error = NoError
                  /\ sp.parts # <<>>
                  /\ \/ ~Has(loaded_aliases, t, sp.parts[1])
                     \/ Len(sp.parts) > Len(ListOf(loaded_aliases, heap, t, sp.parts[1])))
                 => (last'.error = NoError /\ last'.value = text) ]_vars

\* resolve returned the invocation of a known alias that has too few slots for it
C2_Witness ==
    /\ ResolvedTokens
    /\ Has(loaded_aliases, last.table, LastParts[1])
    /\ Len(ListOf(loaded_aliases, heap, last.table, LastParts[1])) >= 1
    /\ Len(LastParts) > Len(ListOf(loaded_aliases, heap, last.table, LastParts[1]))
    /\ last.value = last.text

(***************************************************************************)
(* C3.  add(name, template, overwrite), a the largest placeholder index of *)
(* template: slot a holds template if it was absent or empty or overwrite  *)
(* is true, and what it held otherwise; the other slots of name and the    *)
(* other names are unchanged; new slots below a are empty.                 *)
(***************************************************************************)
C3_AddWritesSlotByPolicy ==
    [][ last'.op = "add" =>
          LET t == last'.table
              name == last'.name
              a == Arity(last'.text)
              old == ListOrEmpty(loaded_aliases, heap, t, name)
              new == ListOrEmpty(loaded_aliases', heap', t, name)
          IN  /\ Has(loaded_aliases', t, name)
              /\ Len(new) = Max(Len(old), a + 1)
              /\ new[a + 1] = IF Len(old) < a + 1 \/ old[a + 1] = <<>> \/ last'.replace
                              THEN last'.text
                              ELSE old[a + 1]
              /\ \A i \in 1..Len(old) : i # a + 1 => new[i] = old[i]
              /\ \A i \in (Len(old) + 1)..a : new[i] = <<>>
              /\ OtherListsUnchanged(t, name) ]_vars

(***************************************************************************)
(* C4.  A.merge(B, overwrite): for every name of B and every slot i of B's *)
(* list, A's slot i is B's if the name or the slot was absent from A, or   *)
(* the slot was empty, or overwrite is true, and is A's old slot           *)
(* otherwise; A's slots beyond B's length and A's other names are          *)
(* unchanged; B is unchanged; an add on one table changes no other table.  *)
(***************************************************************************)
C4_MergePositionWise ==
    [][ /\ last'.op = "merge" =>
             LET t == last'.table
                 o == last'.other
             IN  /\ \A n \in Names :
                       LET a == ListOrEmpty(loaded_aliases, heap, t, n)
                           b == ListOrEmpty(loaded_aliases, heap, o, n)
                           a2 == ListOrEmpty(loaded_aliases', heap', t, n)
                       IN  IF Has(loaded_aliases, o, n)
                           THEN /\ Has(loaded_aliases', t, n)
                                /\ Len(a2) = Max(Len(a), Len(b))
                                /\ \A i \in 1..Len(b) :
                                      a2[i] = IF \/ ~Has(loaded_aliases, t, n)
                                                 \/ i > Len(a)
                                                 \/ a[i] = <<>>
                                                 \/ last'.replace
                                              THEN b[i]
                                              ELSE a[i]
                                /\ \A i \in (Len(b) + 1)..Len(a) : a2[i] = a[i]
                           ELSE /\ Has(loaded_aliases', t, n) = Has(loaded_aliases, t, n)
                                /\ a2 = a
                 /\ \A n \in Names :
                       /\ Has(loaded_aliases', o, n) = Has(loaded_aliases, o, n)
                       /\ ListOrEmpty(loaded_aliases', heap', o, n)
                            = ListOrEmpty(loaded_aliases, heap, o, n)
        /\ last'.op = "add" =>
             \A u \in Tables \ {last'.table}, n \in Names :
                 /\ Has(loaded_aliases', u, n) = Has(loaded_aliases, u, n)
                 /\ ListOrEmpty(loaded_aliases', heap', u, n)
                      = ListOrEmpty(loaded_aliases, heap, u, n) ]_vars

\* a merge without overwrite met a conflict and a gap: the name is in both tables,
\* one slot kept the table's own template and another took the other table's
C4_Witness ==
    /\ last.op = "merge"
    /\ last.table # last.other
    /\ ~last.replace
    /\ \E n \in Names :
          /\ Has(loaded_aliases, last.table, n)
          /\ Has(loaded_aliases, last.other, n)
          /\ \E i \in 1..Len(ListOf(loaded_aliases, heap, last.other, n)) :
                /\ ListOf(loaded_aliases, heap, last.other, n)[i] # <<>>
                /\ ListOf(loaded_aliases, heap, last.table, n)[i] # <<>>
                /\ ListOf(loaded_aliases, heap, last.table, n)[i]
                     # ListOf(loaded_aliases, heap, last.other, n)[i]
          /\ \E i \in 1..Len(ListOf(loaded_aliases, heap, last.other, n)) :
                /\ ListOf(loaded_aliases, heap, last.other, n)[i] # <<>>
                /\ ListOf(loaded_aliases, heap, last.table, n)[i]
                     = ListOf(loaded_aliases, heap, last.other, n)[i]

(***************************************************************************)
(* C5.  add never fails, whatever the braces of the template enclose, and  *)
(* stores the template by its largest well-formed placeholder (slot 0 if   *)
(* there is none).                                                         *)
(***************************************************************************)
C5_AddNeverFails ==
    last.op = "add" =>
        /\ last.error = NoError
        /\ Has(loaded_aliases, last.table, last.name)
        /\ Len(ListOf(loaded_aliases, heap, last.table, last.name)) >= Arity(last.text) + 1

(***************************************************************************)
(* C6.  Every name of a table has a list whose length is one plus the      *)
(* largest arity of the templates registered for it by add, load_dict or   *)
(* merge.                                                                  *)
(***************************************************************************)
C6_LengthIsMaxArityPlusOne ==
    \A t \in Tables, n \in Names :
        Has(loaded_aliases, t, n) =>
            /\ registered[t][n] >= 0
            /\ Len(ListOf(loaded_aliases, heap, t, n)) = registered[t][n] + 1

(***************************************************************************)
(* C7.  Nothing is removed: a name stays in its table, its list never gets *)
(* shorter, and a slot that holds a template keeps holding one.            *)
(***************************************************************************)
C7_NothingRemoved ==
    [][ \A t \in Tables, n \in Names :
          Has(loaded_aliases, t, n) =>
              /\ Has(loaded_aliases', t, n)
              /\ Len(ListOf(loaded_aliases', heap', t, n))
                   >= Len(ListOf(loaded_aliases, heap, t, n))
              /\ \A i \in 1..Len(ListOf(loaded_aliases, heap, t, n)) :
                    ListOf(loaded_aliases, heap, t, n)[i] # <<>>
                        => ListOf(loaded_aliases', heap', t, n)[i] # <<>> ]_vars

(***************************************************************************)
(* C8.  load_dict of positional data (position i of a name's sequence is   *)
(* empty or a template of arity i) stores every non-empty template of the  *)
(* data at its position.                                                   *)
(***************************************************************************)
Positional(data) ==
    \A k \in 1..Len(data) :
        \A i \in 1..Len(data[k][2]) :
            \/ data[k][2][i] = <<>>
            \/ /\ count_args(data[k][2][i]).error = NoError
               /\ Arity(data[k][2][i]) = i - 1

C8_LoadKeepsPositions ==
    [][ (last'.op = "load_dict" /\ Positional(last'.data)) =>
          \A k \in 1..Len(last'.data) :
              \A i \in 1..Len(last'.data[k][2]) :
                  last'.data[k][2][i] # <<>> =>
                      /\ Has(loaded_aliases', last'.table, last'.data[k][1])
                      /\ Len(ListOf(loaded_aliases', heap', last'.table, last'.data[k][1])) >= i
                      /\ ListOf(loaded_aliases', heap', last'.table, last'.data[k][1])[i]
                           = last'.data[k][2][i] ]_vars

(***************************************************************************)
(* C9.  resolve of an invocation whose slot is within range but empty      *)
(* returns the invocation unchanged.                                       *)
(***************************************************************************)
C9_EmptySlotPassThrough ==
    (/\ ResolvedTokens
     /\ Has(loaded_aliases, last.table, LastParts[1])
     /\ Len(LastParts) <= Len(ListOf(loaded_aliases, heap, last.table, LastParts[1]))
     /\ ListOf(loaded_aliases, heap, last.table, LastParts[1])[Len(LastParts)] = <<>>)
    => /\ last.error = NoError
       /\ last.value = last.text

(***************************************************************************)
(* C10.  resolve raises nothing for an invocation that tokenizes, and      *)
(* returns the invocation unchanged when it holds no token.                *)
(***************************************************************************)
C10_ResolveNeverRaises ==
    (last.op = "resolve" /\ shlex_split(last.text).error = NoError)
    => /\ last.error = NoError
       /\ shlex_split(last.text).parts = <<>> => last.value = last.text
====
